---- MODULE Spec2Model ----
(***************************************************************************)
(* A model of the BitTorrent leecher in src/src: the Piece Manager        *)
(* (client.py) and the peer session (protocol.py).                        *)
(*                                                                         *)
(* Python values whose type decides a comparison are modelled with their  *)
(* type: an int n is PyInt(n), a one-element tuple (n,) is PyTuple1(n).   *)
(* Block.__init__ ends four of its assignments with a comma, so the       *)
(* fields piece, offset, length and status of a fresh Block are           *)
(* one-element tuples, and `(0,) == 0` and `(0,) is 0` are both False.    *)
(***************************************************************************)
EXTENDS Integers, Sequences, FiniteSets, TLC

\* ------------------------------------------------------------------ bounds
MaxPieces == 2
MaxTicks == 2
ShortTail == 7232
MaxPuts == 2          \* peers the driver puts in the queue
MaxMsgs == 2          \* messages the remote peers send in all
MaxStops == 1         \* calls of stop()
MaxFrames == 2        \* frames in the byte stream a framer is given
MaxAnnounces == 3     \* announce calls the driver makes
MaxSleeps == 3        \* times the driver sleeps between announces
MaxValues == 3        \* values a message's integer field is drawn from
MaxLoopMsgs == 3      \* messages a remote peer sends in one connection

\* -------------------------------------------------------- program constants
REQUEST_SIZE == 16384
max_pending_time == 300000
BlockMissing == 0
BlockPending == 1
BlockRetrieved == 2

PeerIds == {"A", "B"}
\* block payloads: GoodData is the content the torrent's hashes were made
\* from, BadData any other content; NoData is Python's None
NoData == "None"
GoodData == "good"
BadData == "bad"
DataSet == {GoodData, BadData}
PieceLengths == {2 * REQUEST_SIZE}
TickMs == max_pending_time \div 2 + 1

VARIABLES
    torrent,          \* the Torrent record: piece_length, total_size, pieces
    pieces,           \* the Piece objects, by index: [index, blocks, hash]
    missing_pieces,   \* PieceManager.missing_pieces (piece indices, in order)
    ongoing_pieces,   \* PieceManager.ongoing_pieces
    have_pieces,      \* PieceManager.have_pieces
    pending_blocks,   \* PieceManager.pending_blocks: [block, added]
    peers,            \* PieceManager.peers: peer_id -> bitfield
    file,             \* the output file: position -> bytes written there
    now,              \* time.time() in ms
    py,               \* the interpreter the event loop runs under
    queue,            \* the asyncio.Queue of available peers
    conn,             \* the PeerConnection object's fields
    future,           \* PeerConnection.future: the Task running _start
    hist,             \* what has happened so far (read by the properties)
    fr,               \* a PeerStreamIterator and the byte stream it reads
    cd,               \* a message taken through encode and decode
    drv,              \* the TorrentClient and its Tracker
    hs                \* the bytes of the handshake a session is reading

pmVars == <<torrent, pieces, missing_pieces, ongoing_pieces, have_pieces,
            pending_blocks, peers, file, now>>
sessVars == <<py, queue, conn, future, hist>>
vars == <<torrent, pieces, missing_pieces, ongoing_pieces, have_pieces,
          pending_blocks, peers, file, now, py, queue, conn, future, hist,
          fr, cd, drv, hs>>

\* ------------------------------------------------------------ Python values
PyInt(n) == [kind |-> "int", val |-> n]
PyTuple1(n) == [kind |-> "tuple", val |-> n]
\* mutant: an == that takes a one-element tuple for its element
PyEq_values(a, b) == a.val = b.val
\* a == b: values of different types are unequal
PyEq(a, b) == a.kind = b.kind /\ a.val = b.val
\* a is b, for b a small int constant: the same object iff a is that int
PyIs(a, b) == a.kind = "int" /\ b.kind = "int" /\ a.val = b.val

\* math.ceil(a / b) for a >= 0, b > 0
Ceil(a, b) == (a + b - 1) \div b

\* hashlib.sha1, taken to be collision free
Sha1(bytes) == <<"sha1", bytes>>

\* results of a call: a Block (piece index, position in piece.blocks), None,
\* or an exception
RetBlock(p, i) == [kind |-> "block", piece |-> p, pos |-> i]
RetNone == [kind |-> "none", piece |-> -1, pos |-> 0]
RetRaise == [kind |-> "raise", piece |-> -1, pos |-> 0]

\* ------------------------------------------------------------------- Block
Block(piece, offset, length) ==
    [piece  |-> PyTuple1(piece),
     offset |-> PyTuple1(offset),
     length |-> PyTuple1(length),
     status |-> PyTuple1(BlockMissing),
     data   |-> NoData]

\* ------------------------------------------------------------------- Piece
\* Piece.reset : every block's status becomes the int Block.Missing
Piece_reset(piece) ==
    [piece EXCEPT !.blocks =
        [i \in 1..Len(piece.blocks) |->
            [piece.blocks[i] EXCEPT !.status = PyInt(BlockMissing)]]]

\* positions of [b for b in self.blocks if b.status is Block.Missing]
Piece_missing(piece) ==
    {i \in 1..Len(piece.blocks) :
        PyIs(piece.blocks[i].status, PyInt(BlockMissing))}

Min(S) == CHOOSE x \in S : \A y \in S : x <= y

\* Piece.next_request : the position of the block returned, 0 for None
Piece_next_request_pos(piece) ==
    IF Piece_missing(piece) # {} THEN Min(Piece_missing(piece)) ELSE 0

\* Piece.next_request : the piece afterwards
Piece_next_request(piece) ==
    IF Piece_missing(piece) # {}
    THEN [piece EXCEPT !.blocks[Min(Piece_missing(piece))].status =
                            PyInt(BlockPending)]
    ELSE piece

\* Piece.block_received : offset is the int taken from the Piece message
Piece_block_received(piece, offset, data) ==
    LET matches == {i \in 1..Len(piece.blocks) :
                        PyEq(piece.blocks[i].offset, PyInt(offset))}
    IN  IF matches # {}
        THEN [piece EXCEPT !.blocks[Min(matches)] =
                 [@ EXCEPT !.status = PyInt(BlockRetrieved), !.data = data]]
        ELSE piece

\* Piece.is_complete
Piece_is_complete(piece) ==
    {i \in 1..Len(piece.blocks) :
        ~PyIs(piece.blocks[i].status, PyInt(BlockRetrieved))} = {}

\* sorted(self.blocks, key=lambda b: b.offset)
Piece_sorted(piece) ==
    [k \in 1..Len(piece.blocks) |->
        piece.blocks[CHOOSE i \in 1..Len(piece.blocks) :
            Cardinality({j \in 1..Len(piece.blocks) :
                piece.blocks[j].offset.val < piece.blocks[i].offset.val})
            = k - 1]]

\* Piece.data : b''.join raises TypeError when some block's data is None
Piece_data_raises(piece) ==
    \E i \in 1..Len(piece.blocks) : piece.blocks[i].data = NoData

Piece_data(piece) ==
    [k \in 1..Len(piece.blocks) |-> Piece_sorted(piece)[k].data]

\* Piece.is_hash_matching
Piece_is_hash_matching(piece) == piece.hash = Sha1(Piece_data(piece))

\* ----------------------------------------------------------------- Torrent
\* Torrent.pieces has ceil(total_size / piece_length) hashes (the metainfo
\* invariant); a torrent is given by its piece length, its number of pieces
\* and the size of its final piece
Torrents ==
    UNION {{[piece_length |-> pl, num_pieces |-> n,
             total_size |-> (n - 1) * pl + tail] :
                n \in 1..MaxPieces,
                tail \in {pl, ShortTail, REQUEST_SIZE + ShortTail}} :
           pl \in PieceLengths}

\* the size in bytes of piece index of the payload
TruePieceSize(t, index) ==
    IF index < t.num_pieces - 1 THEN t.piece_length
    ELSE t.total_size - (t.num_pieces - 1) * t.piece_length

\* the hash the metainfo lists for a piece: the SHA-1 of its payload, one
\* GoodData per REQUEST_SIZE bytes (or part thereof)
TorrentHash(t, index) ==
    Sha1([k \in 1..Ceil(TruePieceSize(t, index), REQUEST_SIZE) |-> GoodData])

\* ------------------------------------------------------------ PieceManager
\* PieceManager._initiate_pieces : the blocks of piece index
_initiate_blocks(t, index) ==
    LET std_piece_blocks == Ceil(t.piece_length, REQUEST_SIZE)
        last_length == t.total_size % t.piece_length
        num_blocks == Ceil(last_length, REQUEST_SIZE)
    IN  IF index < t.num_pieces - 1
        THEN [o \in 1..std_piece_blocks |->
                 Block(index, (o - 1) * REQUEST_SIZE, REQUEST_SIZE)]
        ELSE [o \in 1..num_blocks |->
                 IF o = num_blocks /\ last_length % REQUEST_SIZE > 0
                 THEN [Block(index, (o - 1) * REQUEST_SIZE, REQUEST_SIZE)
                          EXCEPT !.length = PyInt(last_length % REQUEST_SIZE)]
                 ELSE Block(index, (o - 1) * REQUEST_SIZE, REQUEST_SIZE)]

\* PieceManager._initiate_pieces
_initiate_pieces(t) ==
    [index \in 0..(t.num_pieces - 1) |->
        [index  |-> index,
         blocks |-> _initiate_blocks(t, index),
         hash   |-> TorrentHash(t, index)]]

Indices == 0..(torrent.num_pieces - 1)
Bitfields == [Indices -> BOOLEAN]

\* mutant: remove() that leaves the list as it was
ListRemove_keeps(list, x) == list

\* list.remove(x): drops the first occurrence
RECURSIVE ListRemove(_, _)
ListRemove(list, x) ==
    IF list = <<>> THEN <<>>
    ELSE IF Head(list) = x THEN Tail(list)
    ELSE <<Head(list)>> \o ListRemove(Tail(list), x)

\* del list[i]
ListDel(list, i) ==
    [k \in 1..(Len(list) - 1) |-> IF k < i THEN list[k] ELSE list[k + 1]]

\* mutant: a lookup that takes the tuple key for its element
BitGet_accepts(key) == FALSE

\* bitstring.BitArray.__getitem__(key): an int key reads the bit, any other
\* key that is no slice raises TypeError
BitGet_raises(key) == key.kind # "int"
BitGet(bitfield, key) == bitfield[key.val]

\* ---------------------------------------------------------------------
\* The manager's mutable state as one value m, so that a handler that makes
\* several calls in a row is one step: every operation below maps m (and its
\* arguments) to the m it leaves.
PM ==
    [pieces |-> pieces, missing_pieces |-> missing_pieces,
     ongoing_pieces |-> ongoing_pieces, have_pieces |-> have_pieces,
     pending_blocks |-> pending_blocks, peers |-> peers, file |-> file]

PMAssign(m) ==
    /\ pieces' = m.pieces
    /\ missing_pieces' = m.missing_pieces
    /\ ongoing_pieces' = m.ongoing_pieces
    /\ have_pieces' = m.have_pieces
    /\ pending_blocks' = m.pending_blocks
    /\ peers' = m.peers
    /\ file' = m.file

\* PieceManager.total_pieces
total_pieces == torrent.num_pieces

\* PieceManager.complete
complete(m) == Len(m.have_pieces) = total_pieces

\* mutant: bytes_downloaded that counts a piece that is not in have
bytes_downloaded_ahead(m) ==
    (Len(m.have_pieces) + 1) * torrent.piece_length

\* PieceManager.bytes_downloaded
bytes_downloaded(m) == Len(m.have_pieces) * torrent.piece_length

\* PieceManager.__init__
PMInit ==
    /\ torrent \in Torrents
    /\ pieces = _initiate_pieces(torrent)
    /\ missing_pieces = [k \in 1..torrent.num_pieces |-> k - 1]
    /\ ongoing_pieces = <<>>
    /\ have_pieces = <<>>
    /\ pending_blocks = <<>>
    /\ peers = <<>>
    /\ file = <<>>
    /\ now = 0

\* PieceManager.add_peer
add_peer(m, peer_id, bitfield) ==
    [m EXCEPT !.peers = [p \in DOMAIN m.peers \cup {peer_id} |->
                            IF p = peer_id THEN bitfield ELSE m.peers[p]]]

\* del self.peers[peer_id]
PeersDel(m, peer_id) == [p \in DOMAIN m.peers \ {peer_id} |-> m.peers[p]]

\* PieceManager.update_peer(peer_id) as defined: one parameter, and the body
\* of remove_peer
update_peer(m, peer_id) ==
    IF peer_id \in DOMAIN m.peers
    THEN [m EXCEPT !.peers = PeersDel(m, peer_id)] ELSE m

\* PieceManager.update_peer(peer_id, index) as the session calls it: one
\* argument more than the method takes, so the call raises TypeError
update_peer_index_raises(m, peer_id, index) == TRUE
update_peer_index(m, peer_id, index) == m

\* PieceManager.remove_peer
remove_peer(m, peer_id) ==
    IF peer_id \in DOMAIN m.peers
    THEN [m EXCEPT !.peers = PeersDel(m, peer_id)] ELSE m

\* the Block object a pending request or a result refers to
BlockAt(m, ref) == m.pieces[ref.piece].blocks[ref.pos]

\* PieceManager._expired_requests : scanning from request i on. The lookup
\* self.peers[peer_id][request.block.piece] raises for a tuple key, and
\* `request.added = current` raises AttributeError on a namedtuple, so the
\* scan ends in None or in an exception
RECURSIVE _expired_scan(_, _, _, _)
_expired_scan(m, peer_id, i, current) ==
    IF i > Len(m.pending_blocks) THEN "none"
    ELSE LET request == m.pending_blocks[i]
             key == BlockAt(m, request.block).piece
         IN  IF BitGet_raises(key) THEN "raise"
             ELSE IF BitGet(m.peers[peer_id], key)
                     /\ request.added + max_pending_time < current
                  THEN "raise"
                  ELSE _expired_scan(m, peer_id, i + 1, current)

_expired_requests(m, peer_id) == _expired_scan(m, peer_id, 1, now)

\* mutant: _next_ongoing without the test of the peer's bitfield
_next_ongoing_any(m, peer_id) ==
    LET hits == {k \in 1..Len(m.ongoing_pieces) :
                    Piece_next_request_pos(m.pieces[m.ongoing_pieces[k]]) # 0}
    IN  IF hits # {} THEN Min(hits) ELSE 0

\* PieceManager._next_ongoing : the position in ongoing_pieces of the piece
\* whose block is returned, 0 for None
_next_ongoing(m, peer_id) ==
    LET hits == {k \in 1..Len(m.ongoing_pieces) :
                    /\ BitGet(m.peers[peer_id],
                              PyInt(m.pieces[m.ongoing_pieces[k]].index))
                    /\ Piece_next_request_pos(m.pieces[m.ongoing_pieces[k]]) # 0}
    IN  IF hits # {} THEN Min(hits) ELSE 0

\* PieceManager._get_rarest_piece : piece_count, as the positions in
\* missing_pieces of the pieces the peer has
_rarest_candidates(m, peer_id) ==
    {k \in 1..Len(m.missing_pieces) :
        BitGet(m.peers[peer_id], PyInt(m.pieces[m.missing_pieces[k]].index))}

_piece_count(m, index) ==
    Cardinality({p \in DOMAIN m.peers : BitGet(m.peers[p], PyInt(index))})

\* min(piece_count, key=...) : the first piece of least count, in the
\* insertion order of the dict, which is the order of missing_pieces
_get_rarest_piece(m, peer_id) ==
    LET cand == _rarest_candidates(m, peer_id)
        least == {k \in cand : \A j \in cand :
                     _piece_count(m, m.missing_pieces[k])
                        <= _piece_count(m, m.missing_pieces[j])}
    IN  m.missing_pieces[Min(least)]

\* PieceManager.next_request : what the call returns
next_request_ret(m, peer_id) ==
    IF peer_id \notin DOMAIN m.peers THEN RetNone
    ELSE IF _expired_requests(m, peer_id) = "raise" THEN RetRaise
    ELSE IF _next_ongoing(m, peer_id) # 0
    THEN LET index == m.ongoing_pieces[_next_ongoing(m, peer_id)]
         IN  RetBlock(index, Piece_next_request_pos(m.pieces[index]))
    ELSE IF _rarest_candidates(m, peer_id) = {}
    THEN RetRaise       \* min() of an empty dict: ValueError
    ELSE LET index == _get_rarest_piece(m, peer_id)
             pos == Piece_next_request_pos(m.pieces[index])
         IN  IF pos = 0 THEN RetNone ELSE RetBlock(index, pos)

\* PieceManager.next_request : the state the call leaves
next_request(m, peer_id) ==
    IF peer_id \notin DOMAIN m.peers THEN m
    ELSE IF _expired_requests(m, peer_id) = "raise" THEN m
    ELSE IF _next_ongoing(m, peer_id) # 0
    THEN LET index == m.ongoing_pieces[_next_ongoing(m, peer_id)]
             pos == Piece_next_request_pos(m.pieces[index])
         IN  [m EXCEPT
                !.pieces[index] = Piece_next_request(@),
                !.pending_blocks = Append(@,
                    [block |-> [piece |-> index, pos |-> pos], added |-> now])]
    ELSE IF _rarest_candidates(m, peer_id) = {} THEN m
    ELSE LET index == _get_rarest_piece(m, peer_id)
         IN  [m EXCEPT
                !.missing_pieces = ListRemove(@, index),
                !.ongoing_pieces = Append(@, index),
                !.pieces[index] = Piece_next_request(@)]

\* the loop of block_received over pending_blocks: the position of the
\* first request of that piece and offset, 0 when there is none
_pending_match(m, piece_index, block_offset) ==
    LET hits == {k \in 1..Len(m.pending_blocks) :
                    /\ PyEq(BlockAt(m, m.pending_blocks[k].block).piece,
                            PyInt(piece_index))
                    /\ PyEq(BlockAt(m, m.pending_blocks[k].block).offset,
                            PyInt(block_offset))}
    IN  IF hits # {} THEN Min(hits) ELSE 0

\* PieceManager._write : os.lseek to index * piece_length, os.write of the
\* piece's data (writing b'' changes nothing)
_write(m, piece) ==
    LET pos == piece.index * torrent.piece_length
    IN  IF Piece_data(piece) = <<>> THEN m.file
        ELSE [q \in DOMAIN m.file \cup {pos} |->
                 IF q = pos THEN Piece_data(piece) ELSE m.file[q]]

\* block_received : the position in ongoing_pieces of
\* [p for p in self.ongoing_pieces if p.index == piece_index][0], 0 for None
_ongoing_match(m, piece_index) ==
    LET found == {j \in 1..Len(m.ongoing_pieces) :
                     m.pieces[m.ongoing_pieces[j]].index = piece_index}
    IN  IF found # {} THEN Min(found) ELSE 0

\* PieceManager.block_received : whether the call raises (the TypeError of
\* b''.join in _write, when a block of the completed piece holds None)
block_received_raises(m, peer_id, piece_index, block_offset, data) ==
    /\ _ongoing_match(m, piece_index) # 0
    /\ LET piece == Piece_block_received(
                        m.pieces[m.ongoing_pieces[_ongoing_match(m, piece_index)]],
                        block_offset, data)
       IN  Piece_is_complete(piece) /\ Piece_data_raises(piece)

\* PieceManager.block_received : the state the call leaves
block_received(m, peer_id, piece_index, block_offset, data) ==
    LET k == _pending_match(m, piece_index, block_offset)
        m1 == IF k # 0
              THEN [m EXCEPT !.pending_blocks = ListDel(@, k)] ELSE m
    IN  IF _ongoing_match(m1, piece_index) = 0 THEN m1
        ELSE LET index == m1.ongoing_pieces[_ongoing_match(m1, piece_index)]
                 piece == Piece_block_received(m1.pieces[index],
                                               block_offset, data)
             IN  IF Piece_is_complete(piece)
                 THEN IF Piece_data_raises(piece)
                      THEN [m1 EXCEPT !.pieces[index] = piece]
                      ELSE [m1 EXCEPT
                              !.pieces[index] = piece,
                              !.file = _write(m1, piece),
                              !.ongoing_pieces = ListRemove(@, index),
                              !.have_pieces = Append(@, index)]
                 ELSE [m1 EXCEPT !.pieces[index] = Piece_reset(piece)]

\* the block offsets a Piece message may carry
Offsets == {0, REQUEST_SIZE}

\* ------------------------------------------- the manager's calls, as steps
AddPeer ==
    /\ \E p \in PeerIds, bf \in Bitfields : PMAssign(add_peer(PM, p, bf))
    /\ UNCHANGED <<torrent, now, py, queue, conn, future, hist, fr, cd, drv, hs>>

UpdatePeer ==
    /\ \E p \in PeerIds : PMAssign(update_peer(PM, p))
    /\ UNCHANGED <<torrent, now, py, queue, conn, future, hist, fr, cd, drv, hs>>

UpdatePeerIndex ==
    /\ \E p \in PeerIds, i \in Indices : PMAssign(update_peer_index(PM, p, i))
    /\ UNCHANGED <<torrent, now, py, queue, conn, future, hist, fr, cd, drv, hs>>

RemovePeer ==
    /\ \E p \in PeerIds : PMAssign(remove_peer(PM, p))
    /\ UNCHANGED <<torrent, now, py, queue, conn, future, hist, fr, cd, drv, hs>>

NextRequest ==
    /\ \E p \in PeerIds : PMAssign(next_request(PM, p))
    /\ UNCHANGED <<torrent, now, py, queue, conn, future, hist, fr, cd, drv, hs>>

\* block_received only logs its peer_id
BlockReceivedStep(i, o, d) ==
    /\ PMAssign(block_received(PM, "A", i, o, d))
    /\ UNCHANGED <<torrent, now, py, queue, conn, future, hist, fr, cd, drv, hs>>

BlockReceived ==
    \E i \in Indices, o \in Offsets, d \in DataSet : BlockReceivedStep(i, o, d)

\* time passes; the clock is read only against the time a pending request
\* was added, so it is let run only while there is one
Tick ==
    /\ now < MaxTicks * TickMs
    /\ pending_blocks # <<>>
    /\ now' = now + TickMs
    /\ UNCHANGED <<torrent, pieces, missing_pieces, ongoing_pieces,
                   have_pieces, pending_blocks, peers, file,
                   py, queue, conn, future, hist, fr, cd, drv, hs>>

\* ============================================================ message codec
\* bytes are sequences of numbers 0..255
\* struct.pack('>I', n) and struct.unpack('>I', b)
pack_I(n) ==
    <<(n \div 16777216) % 256, (n \div 65536) % 256, (n \div 256) % 256,
      n % 256>>
unpack_I(b) == ((b[1] * 256 + b[2]) * 256 + b[3]) * 256 + b[4]
\* struct.pack('>b', n) and struct.unpack('>b', b) : a signed byte
pack_b(n) == <<n % 256>>
unpack_b(b) == IF b[1] < 128 THEN b[1] ELSE b[1] - 256
\* b[i:j]
Slice(b, i, j) == SubSeq(b, i + 1, IF j < Len(b) THEN j ELSE Len(b))
Zeros(n) == [k \in 1..n |-> 0]

\* PeerMessage ids
PeerMessage_CHOKE == 0
PeerMessage_UNCHOKE == 1
PeerMessage_INTERESTED == 2
PeerMessage_NOTINTERESTED == 3
PeerMessage_HAVE == 4
PeerMessage_BITFIELD == 5
PeerMessage_REQUEST == 6
PeerMessage_PIECE == 7
PeerMessage_CANCEL == 8
PeerMessage_PORT == 9
Handshake_length == 68
Piece_length == 9

\* what a call gives back when it gives no message
None == [kind |-> "None"]
Raised(error) == [kind |-> "raise", error |-> error]
IsMessage(r) == r.kind \notin {"None", "raise"}

\* b'BitTorrent protocol'
pstr ==
    <<66, 105, 116, 84, 111, 114, 114, 101, 110, 116, 32,
      112, 114, 111, 116, 111, 99, 111, 108>>

\* Handshake.encode : struct.pack('>B19s8x20s20s', ...)
Handshake_encode(m) ==
    <<19>> \o pstr \o Zeros(8) \o m.info_hash \o m.peer_id

\* Handshake.decode
Handshake_decode(data) ==
    IF Len(data) < 68 THEN None
    ELSE IF Len(data) # 68 THEN Raised("struct.error")
    ELSE [kind |-> "Handshake", info_hash |-> Slice(data, 28, 48),
          peer_id |-> Slice(data, 48, 68)]

\* PeerMessage.encode and PeerMessage.decode, which KeepAlive, Choke,
\* Unchoke and NotInterested inherit: the body is `pass`
PeerMessage_encode(m) == None
PeerMessage_decode(data) == None

\* BitField.encode : the count of the 's' field is the length in bits and
\* its argument a BitArray, not bytes: struct.error
BitField_encode(m) == Raised("struct.error")

\* BitField.decode
BitField_decode(data) ==
    IF Len(data) < 4 THEN Raised("struct.error")
    ELSE IF unpack_I(Slice(data, 0, 4)) < 1 THEN Raised("struct.error")
    ELSE IF Len(data) # 4 + unpack_I(Slice(data, 0, 4))
    THEN Raised("struct.error")
    ELSE [kind |-> "BitField", bitfield |-> Slice(data, 5, Len(data))]

\* Interested.encode
Interested_encode(m) == pack_I(1) \o pack_b(PeerMessage_INTERESTED)

\* mutant: a Have.decode that does not mind how many bytes it is given
Have_decode_any(data) ==
    [kind |-> "Have", index |-> unpack_I(Slice(data \o Zeros(9), 5, 9))]

\* Have.encode and Have.decode : struct '>IbI'
Have_encode(m) == pack_I(5) \o pack_b(PeerMessage_HAVE) \o pack_I(m.index)
Have_decode(data) ==
    IF Len(data) # 9 THEN Raised("struct.error")
    ELSE [kind |-> "Have", index |-> unpack_I(Slice(data, 5, 9))]

\* Request.encode and Request.decode : struct '>IbIII'
Request_encode(m) ==
    pack_I(13) \o pack_b(PeerMessage_REQUEST) \o pack_I(m.index) \o pack_I(m.begin)
        \o pack_I(m.length)
Request_decode(data) ==
    IF Len(data) # 17 THEN Raised("struct.error")
    ELSE [kind |-> "Request", index |-> unpack_I(Slice(data, 5, 9)),
          begin |-> unpack_I(Slice(data, 9, 13)),
          length |-> unpack_I(Slice(data, 13, 17))]

\* Piece.encode : PeerMessage.Piece does not exist
Piece_encode(m) == Raised("AttributeError")

\* Piece.decode : struct.unpack is called with the format alone
Piece_decode(data) ==
    IF Len(data) < 4 THEN Raised("struct.error") ELSE Raised("TypeError")

\* Cancel.encode and Cancel.decode
Cancel_encode(m) ==
    pack_I(13) \o pack_b(PeerMessage_CANCEL) \o pack_I(m.index) \o pack_I(m.begin)
        \o pack_I(m.length)
Cancel_decode(data) ==
    IF Len(data) # 17 THEN Raised("struct.error")
    ELSE [kind |-> "Cancel", index |-> unpack_I(Slice(data, 5, 9)),
          begin |-> unpack_I(Slice(data, 9, 13)),
          length |-> unpack_I(Slice(data, 13, 17))]

\* ========================================================= PeerStreamIterator
\* PeerStreamIterator.parse : the value it returns (a message, None, or an
\* exception) and the buffer it leaves. A keep-alive is returned and an
\* unsupported id is logged without _consume(); the test before decoding is
\* len(buffer) >= message_length; NotInterested is returned as the class
PeerStreamIterator_parse(buffer) ==
    LET Ret(r, b) == [ret |-> r, buffer |-> b] IN
    IF Len(buffer) > 4
    THEN LET message_length == unpack_I(Slice(buffer, 0, 4))
             message_id == unpack_b(Slice(buffer, 4, 5))
             data == Slice(buffer, 0, 4 + message_length)
             consumed == Slice(buffer, 4 + message_length, Len(buffer))
         IN  IF message_length = 0 THEN Ret([kind |-> "KeepAlive"], buffer)
             ELSE IF Len(buffer) >= message_length
             THEN CASE message_id = PeerMessage_BITFIELD ->
                         Ret(BitField_decode(data), consumed)
                    [] message_id = PeerMessage_INTERESTED ->
                         Ret([kind |-> "Interested"], consumed)
                    [] message_id = PeerMessage_NOTINTERESTED ->
                         Ret([kind |-> "type", name |-> "NotInterested"],
                             consumed)
                    [] message_id = PeerMessage_CHOKE ->
                         Ret([kind |-> "Choke"], consumed)
                    [] message_id = PeerMessage_UNCHOKE ->
                         Ret([kind |-> "Unchoke"], consumed)
                    [] message_id = PeerMessage_HAVE ->
                         Ret(Have_decode(data), consumed)
                    [] message_id = PeerMessage_PIECE ->
                         Ret(Piece_decode(data), consumed)
                    [] message_id = PeerMessage_REQUEST ->
                         Ret(Request_decode(data), consumed)
                    [] message_id = PeerMessage_CANCEL ->
                         Ret(Cancel_decode(data), consumed)
                    [] OTHER -> Ret(None, buffer)
             ELSE Ret(None, buffer)
    ELSE Ret(None, buffer)

\* PeerStreamIterator.__anext__ from the return of reader.read(CHUNK_SIZE)
\* with `data` to its next read or its end. An exception out of parse is
\* caught and becomes StopAsyncIteration, as does a read of b'' that leaves
\* nothing to parse; a parse that returns None goes round the while
PeerStreamIterator_anext(f, data) ==
    LET r == PeerStreamIterator_parse(f.buffer \o data) IN
    IF data = <<>> /\ f.buffer = <<>> THEN [f EXCEPT !.state = "terminated"]
    ELSE IF r.ret.kind = "raise"
    THEN [f EXCEPT !.buffer = r.buffer, !.state = "terminated"]
    ELSE IF r.ret.kind = "None"
    THEN [f EXCEPT !.buffer = r.buffer,
                   !.state = IF data = <<>> THEN "terminated" ELSE @]
    ELSE [f EXCEPT !.buffer = r.buffer, !.out = Append(@, r.ret)]

\* the frame a remote peer sends for a message:
\* <length prefix><message id><payload>, and four zero bytes to keep alive
Frame(id, payload) == pack_I(1 + Len(payload)) \o pack_b(id) \o payload

Wire(m) ==
    CASE m.kind = "KeepAlive" -> pack_I(0)
      [] m.kind = "Choke" -> Frame(PeerMessage_CHOKE, <<>>)
      [] m.kind = "NotInterested" -> Frame(PeerMessage_NOTINTERESTED, <<>>)
      [] m.kind = "Have" -> Frame(PeerMessage_HAVE, pack_I(m.index))
      [] m.kind = "BitField" -> Frame(PeerMessage_BITFIELD, m.bitfield)
      [] m.kind = "Piece" ->
           Frame(PeerMessage_PIECE,
                 pack_I(m.index) \o pack_I(m.begin) \o m.block)
      [] m.kind = "Port" -> Frame(PeerMessage_PORT, m.port)

\* the messages the streams are made of; Port is an id parse does not know
FramerMessages ==
    {[kind |-> "KeepAlive"], [kind |-> "Choke"], [kind |-> "NotInterested"],
     [kind |-> "Have", index |-> 1],
     [kind |-> "BitField", bitfield |-> <<128>>],
     [kind |-> "Piece", index |-> 0, begin |-> 0, block |-> <<7>>],
     [kind |-> "Port", port |-> <<26, 225>>]}

RECURSIVE WireAll(_)
WireAll(ms) == IF ms = <<>> THEN <<>> ELSE Wire(Head(ms)) \o WireAll(Tail(ms))

\* =========================================================== PeerConnection
\* my_state and peer_state are lists that are only appended to, tested for
\* membership and removed from (one occurrence at a time): each is modelled
\* by how many times each word occurs in it.
StateWords == {"chocked", "interested", "choked", "pending_request", "stopped"}
NoWords == [word \in StateWords |-> 0]
append(list, word) == [list EXCEPT ![word] = @ + 1]
remove(list, word) == [list EXCEPT ![word] = @ - 1]
in(word, list) == list[word] > 0

\* the interpreters that differ in what the session does:
\*  "3.6"  `async for` accepts the coroutine returned by `async def
\*         __aiter__`; asyncio raises concurrent.futures.CancelledError;
\*         a coroutine that returns after Task.cancel() ends FINISHED
\*  "3.7"  `async for` raises TypeError; asyncio raises
\*         concurrent.futures.CancelledError; a coroutine that returns with
\*         a cancellation outstanding ends CANCELLED
\*  "3.8"  as "3.7", and asyncio.CancelledError is a BaseException of its
\*         own that `except (ConnectionResetError, CancelledError)` and
\*         `except Exception` let through
Interpreters == {"3.6", "3.7", "3.8"}
aiter_accepted == py = "3.6"
CancelledError_caught == py \in {"3.6", "3.7"}
return_ends_cancelled == py \in {"3.7", "3.8"}

\* PeerConnection.__init__ ; the Task has been created and not yet run
SessInit ==
    /\ py = "none"
    /\ queue = <<>>
    /\ conn = [my_state |-> NoWords, peer_state |-> 0, remote_id |-> "None",
               writer |-> "None", peer |-> "None", keepalive |-> FALSE]
    /\ future = [at |-> "start", must_cancel |-> FALSE, state |-> "PENDING"]
    /\ hist = [puts |-> 0, msgs |-> 0, stops |-> 0, pulled |-> 0, sent |-> 0,
               requests |-> 0, unchoked |-> FALSE, ended |-> FALSE,
               task_done |-> 0, cancelled |-> FALSE, interested |-> 0,
               registered |-> 0, last |-> "None", callbacks |-> 0]

\* everything a step of the session can change, as one value
W ==
    [conn |-> conn, future |-> future, pm |-> PM, queue |-> queue,
     hist |-> hist]

WAssign(w) ==
    /\ conn' = w.conn
    /\ future' = w.future
    /\ PMAssign(w.pm)
    /\ queue' = w.queue
    /\ hist' = w.hist

\* mutant: a cancel() of the Task that requests nothing
Task_cancel_noop(f) == f

\* Task.cancel() on a Task that is not done: the coroutine's next step is
\* CancelledError thrown in where it waits (whether by cancelling the
\* future it waits for or, while it runs, by _must_cancel)
Task_cancel(f) == [f EXCEPT !.must_cancel = TRUE]

\* Future.done()
done(f) == f.state # "PENDING"

\* the coroutine _start ends: by return, by CancelledError, by another
\* exception
Task_finish(w, state) ==
    [w EXCEPT !.future = [at |-> "done", must_cancel |-> FALSE,
                          state |-> state]]

Task_return(w) ==
    Task_finish(w, IF w.future.must_cancel /\ return_ends_cancelled
                   THEN "CANCELLED" ELSE "RETURNED")

\* PeerConnection.cancel ; hist.task_done counts the calls of
\* queue.task_done() since the last queue.get()
cancel(w) ==
    [w EXCEPT !.future = IF done(@) THEN @ ELSE Task_cancel(@),
              !.conn.writer = IF @ # "None" THEN "closed" ELSE @,
              !.hist.task_done = @ + 1]

\* PeerConnection.stop
stop(w) ==
    [w EXCEPT !.conn.my_state = append(@, "stopped"),
              !.future = IF done(@) THEN @ ELSE Task_cancel(@)]

\* _start, lines 72-79: the test of the while; queue.get(), which returns
\* at once when the queue holds a peer and waits otherwise; then
\* open_connection, which waits
_start_loop(w) ==
    IF in("stopped", w.conn.my_state) THEN Task_return(w)
    ELSE IF w.queue = <<>> THEN [w EXCEPT !.future.at = "get"]
    ELSE [w EXCEPT !.conn.peer = Head(w.queue),
                   !.queue = Tail(@),
                   !.future.at = "connect",
                   !.hist.pulled = @ + 1,
                   !.hist.ended = FALSE,
                   !.hist.task_done = 0,
                   !.hist.cancelled = FALSE]

\* line 154: self.cancel() after the try statement, then the while again
_start_after_try(w) == _start_loop(cancel(w))

\* lines 150-153: except Exception: self.cancel(); raise e
_start_except_Exception(w) == Task_finish(cancel(w), "RAISED")

\* the connection to the current peer has ended for a reason the session
\* is meant to outlive
Ended(w) == [w EXCEPT !.hist.ended = TRUE]

\* lines 77-82: open_connection returns or raises; on success _handshake
\* writes the Handshake (drain does not wait for so few bytes) and waits in
\* reader.read
ConnectOutcomes == {"connected", "refused", "timeout", "reset", "unreachable"}

open_connection(w, outcome) ==
    IF outcome = "connected"
    THEN [w EXCEPT !.conn.writer = "open",
                   !.conn.keepalive = FALSE,
                   !.hist.sent = @ + 1,
                   !.hist.requests = 0,
                   !.hist.unchoked = FALSE,
                   !.hist.interested = 0,
                   !.hist.registered = 0,
                   !.future.at = "handshake"]
    ELSE IF outcome = "unreachable"
    THEN _start_except_Exception(w)      \* an OSError of no named class
    ELSE _start_after_try(Ended(w))

\* _handshake from its read on, and lines 84-89: a short or foreign
\* handshake raises ProtocolError; a valid one sets remote_id, and _start
\* appends 'chocked', sends Interested, appends 'interested' and enters
\* `async for`
HandshakeOutcomes == {"valid", "short", "other_torrent", "reset"}

_handshake(w, outcome) ==
    IF outcome = "valid"
    THEN LET w1 == [w EXCEPT
                      !.conn.remote_id = w.conn.peer,
                      !.conn.my_state = append(append(@, "chocked"),
                                               "interested"),
                      !.hist.sent = @ + 1,
                      !.hist.interested = @ + 1]
         IN  IF aiter_accepted THEN [w1 EXCEPT !.future.at = "iter"]
             ELSE _start_except_Exception(w1)     \* TypeError
    ELSE _start_after_try(Ended(w))

\* Request.encode : struct.pack('>IbIII', ...) raises struct.error for an
\* argument that is not an integer
Request_encode_raises(block) ==
    \/ block.piece.kind # "int"
    \/ block.offset.kind # "int"
    \/ block.length.kind # "int"

\* lines 133-142 and _request_piece
_request_piece(w) ==
    IF /\ ~in("choked", w.conn.my_state)
       /\ in("interested", w.conn.my_state)
       /\ ~in("pending_request", w.conn.my_state)
    THEN LET ret == next_request_ret(w.pm, w.conn.remote_id)
             w1 == [w EXCEPT
                      !.conn.my_state = append(@, "pending_request"),
                      !.pm = next_request(@, w.conn.remote_id)]
         IN  IF ret.kind = "raise" THEN _start_except_Exception(w1)
             ELSE IF ret.kind = "none" THEN w1
             ELSE IF Request_encode_raises(BlockAt(w1.pm, ret))
             THEN _start_except_Exception(w1)
             ELSE [w1 EXCEPT !.hist.sent = @ + 1,
                             !.hist.requests = @ + 1]
    ELSE w

\* the messages PeerStreamIterator.parse tells apart
Messages ==
    {"BitField", "Interested", "NotInterested", "Choke", "Unchoke", "Have",
     "KeepAlive", "Request", "Cancel"}

\* PeerStreamIterator.parse : a keep-alive is returned without being
\* consumed, so it is what every later parse of the buffer returns
parse(w, message) == IF w.conn.keepalive THEN "KeepAlive" ELSE message

\* lines 90-142: the body of `async for`, for one message. parse returns
\* the class NotInterested, not an instance, which is none of the types
\* tested; update_peer is called with an argument more than it takes
_start_message(w, message, bitfield) ==
    IF in("stopped", w.conn.my_state) THEN _start_after_try(w)
    ELSE IF message = "Have" /\ update_peer_index_raises(w.pm, w.conn.remote_id, 0)
    THEN _start_except_Exception(w)
    ELSE _request_piece(
           CASE message = "BitField" ->
                  [w EXCEPT !.pm = add_peer(@, w.conn.remote_id, bitfield),
                            !.hist.registered = @ + 1]
             [] message = "Interested" ->
                  [w EXCEPT !.conn.peer_state = @ + 1]
             [] message = "Choke" ->
                  [w EXCEPT !.conn.my_state = append(@, "choked")]
             [] message = "Unchoke" ->
                  [w EXCEPT !.conn.my_state =
                                IF in("choked", @) THEN remove(@, "choked")
                                ELSE @,
                            !.hist.unchoked = TRUE]
             [] message = "KeepAlive" ->
                  [w EXCEPT !.conn.keepalive = TRUE]
             [] OTHER -> w)

\* lines 100-101 and 121-127, then 133-142: the body of `async for` for a
\* Piece. list.remove raises ValueError for a word that is not in the list;
\* on_block_cb is TorrentClient._on_block_retrieved, which calls
\* block_received
_start_piece(w, index, begin, block) ==
    IF in("stopped", w.conn.my_state) THEN _start_after_try(w)
    ELSE IF ~in("pending_request", w.conn.my_state)
    THEN _start_except_Exception(w)
    ELSE LET w1 == [w EXCEPT
                      !.conn.my_state = remove(@, "pending_request"),
                      !.hist.callbacks = @ + 1,
                      !.pm = block_received(@, w.conn.remote_id, index,
                                            begin, block)]
         IN  IF block_received_raises(w.pm, w.conn.remote_id, index, begin,
                                      block)
             THEN _start_except_Exception(w1)
             ELSE _request_piece(w1)

\* reader.read returns b'': StopAsyncIteration, unless the buffer still
\* parses. It does when a keep-alive is stuck at its head: read then returns
\* b'' at once every time and parse a KeepAlive every time, and the loop
\* never gives the event loop another turn
end_of_stream(w) ==
    IF w.conn.keepalive
    THEN LET w1 == _start_message(w, "KeepAlive", <<>>)
         IN  IF w1.future.at = "iter" THEN [w1 EXCEPT !.future.at = "spin"]
             ELSE w1
    ELSE _start_after_try(Ended(w))

\* CancelledError thrown into the coroutine where it waits. queue.get() is
\* outside the try statement; PeerStreamIterator.__anext__ turns the error
\* into StopAsyncIteration; elsewhere it meets the except clauses of _start
CancelledError(w) ==
    LET w1 == [w EXCEPT !.future.must_cancel = FALSE,
                        !.hist.cancelled =
                            w.future.at \in {"connect", "handshake", "iter"}]
    IN  CASE w.future.at \in {"start", "get"} ->
               Task_finish(w1, "CANCELLED")
          [] w.future.at \in {"connect", "handshake"} ->
               IF CancelledError_caught THEN _start_after_try(w1)
               ELSE Task_finish(w1, "CANCELLED")
          [] w.future.at = "iter" -> _start_after_try(w1)

\* ------------------------------------------------- the session's steps
\* the event loop runs one callback at a time: a step is what the coroutine
\* does from one wait to the next. A Task with a cancellation outstanding
\* is resumed by CancelledError and by nothing else.
Waiting(at) == future.at = at /\ ~future.must_cancel

Start ==
    /\ Waiting("start")
    /\ py' \in Interpreters
    /\ WAssign(_start_loop(W))
    /\ UNCHANGED <<torrent, now, fr, cd, drv, hs>>

QueueGet ==
    /\ Waiting("get")
    /\ queue # <<>>
    /\ WAssign(_start_loop(W))
    /\ UNCHANGED <<torrent, now, py, fr, cd, drv, hs>>

Cancelled ==
    /\ ~done(future)
    /\ future.must_cancel
    /\ WAssign(CancelledError(W))
    /\ UNCHANGED <<torrent, now, py, fr, cd, drv, hs>>

OpenConnection ==
    /\ Waiting("connect")
    /\ \E outcome \in ConnectOutcomes : WAssign(open_connection(W, outcome))
    /\ UNCHANGED <<torrent, now, py, fr, cd, drv, hs>>

Handshake ==
    /\ Waiting("handshake")
    /\ \E outcome \in HandshakeOutcomes : WAssign(_handshake(W, outcome))
    /\ UNCHANGED <<torrent, now, py, fr, cd, drv, hs>>

Counted(w) == [w EXCEPT !.hist.msgs = @ + 1]

Message ==
    /\ Waiting("iter")
    /\ hist.msgs < MaxMsgs
    /\ \E message \in Messages, bitfield \in Bitfields :
          WAssign(_start_message(Counted(W), parse(W, message), bitfield))
    /\ UNCHANGED <<torrent, now, py, fr, cd, drv, hs>>

\* the bytes of a block of the payload
BlockBytes(data) == IF data = GoodData THEN <<7>> ELSE <<8>>

\* a Piece message arrives: parse hands the frame to Piece.decode; an
\* exception out of it is caught in __anext__ and becomes
\* StopAsyncIteration
_start_piece_frame(w, index, begin, data) ==
    LET message == Piece_decode(Wire([kind |-> "Piece", index |-> index,
                                      begin |-> begin,
                                      block |-> BlockBytes(data)]))
    IN  IF w.conn.keepalive THEN _start_message(w, "KeepAlive", <<>>)
        ELSE IF message.kind = "raise" THEN _start_after_try(w)
        ELSE _start_piece(w, message.index, message.begin, data)

PieceMessage ==
    /\ Waiting("iter")
    /\ hist.msgs < MaxMsgs
    /\ \E index \in Indices, begin \in Offsets, data \in DataSet :
          WAssign(_start_piece_frame(Counted(W), index, begin, data))
    /\ UNCHANGED <<torrent, now, py, fr, cd, drv, hs>>

EndOfStream ==
    /\ Waiting("iter")
    /\ WAssign(end_of_stream(W))
    /\ UNCHANGED <<torrent, now, py, fr, cd, drv, hs>>

\* reader.read raises ConnectionResetError: StopAsyncIteration
ConnectionReset ==
    /\ Waiting("iter")
    /\ WAssign(_start_after_try(Ended(W)))
    /\ UNCHANGED <<torrent, now, py, fr, cd, drv, hs>>

\* the driver, between the session's steps: TorrentClient.start puts the
\* tracker's peers in the queue, TorrentClient.stop calls stop()
QueuePut ==
    /\ future.at # "spin"
    /\ hist.puts < MaxPuts
    /\ \E peer \in PeerIds : queue' = Append(queue, peer)
    /\ hist' = [hist EXCEPT !.puts = @ + 1]
    /\ UNCHANGED <<torrent, pieces, missing_pieces, ongoing_pieces,
                   have_pieces, pending_blocks, peers, file, now,
                   py, conn, future, fr, cd, drv, hs>>

Stop ==
    /\ future.at # "spin"
    /\ hist.stops < MaxStops
    /\ WAssign([stop(W) EXCEPT !.hist.stops = @ + 1])
    /\ UNCHANGED <<torrent, now, py, fr, cd, drv, hs>>

\* the parts of the program that a specification leaves at rest
FramerIdle ==
    fr = [sent |-> <<>>, cut |-> 0, stream |-> <<>>, buffer |-> <<>>,
          out |-> <<>>, state |-> "idle"]
CodecIdle ==
    cd = [state |-> "idle", m |-> [kind |-> "None"], data |-> [kind |-> "None"],
          back |-> [kind |-> "None"]]
DriverIdle ==
    drv = [task |-> "idle", abort |-> FALSE, previous |-> 0, interval |-> 0,
           clock |-> 0, current |-> 0, announces |-> <<>>, failed |-> FALSE,
           queue_before |-> <<>>, stop_calls |-> 0, fd |-> "open",
           http_client |-> "open", sleeps |-> 0, returned |-> <<>>]
HandshakeIdle ==
    hs = [stream |-> <<>>, returned |-> <<>>, buf |-> <<>>, tries |-> 0,
          valid |-> FALSE]

Init ==
    /\ PMInit
    /\ SessInit
    /\ FramerIdle
    /\ CodecIdle
    /\ DriverIdle
    /\ HandshakeIdle

Next ==
    \/ Start
    \/ QueueGet
    \/ Cancelled
    \/ OpenConnection
    \/ Handshake
    \/ Message
    \/ PieceMessage
    \/ EndOfStream
    \/ ConnectionReset
    \/ QueuePut
    \/ Stop

Spec == Init /\ [][Next]_vars

\* the event loop runs every callback that is ready
SpecFair ==
    /\ Spec
    /\ WF_vars(Start)
    /\ WF_vars(QueueGet)
    /\ WF_vars(Cancelled)

\* the Piece Manager alone, its methods called in any order
PMNext ==
    \/ AddPeer
    \/ UpdatePeer
    \/ UpdatePeerIndex
    \/ RemovePeer
    \/ NextRequest
    \/ BlockReceived
    \/ Tick

SpecPM == Init /\ [][PMNext]_vars

\* ===================================================== Piece Manager claims
ListSet(list) == {list[k] : k \in 1..Len(list)}
NoDup(list) == \A j, k \in 1..Len(list) : j # k => list[j] # list[k]

\* a block's fields as the numbers they stand for
OffsetOf(b) == b.offset.val
IsRetrieved(b) == b.status.val = BlockRetrieved
IsPending(b) == b.status.val = BlockPending
IsMissing(b) == b.status.val = BlockMissing

\* C1: missing, ongoing and have are pairwise disjoint, hold no piece twice,
\* and together hold exactly the pieces created at construction
C1_Partition ==
    /\ NoDup(missing_pieces) /\ NoDup(ongoing_pieces) /\ NoDup(have_pieces)
    /\ ListSet(missing_pieces) \cap ListSet(ongoing_pieces) = {}
    /\ ListSet(missing_pieces) \cap ListSet(have_pieces) = {}
    /\ ListSet(ongoing_pieces) \cap ListSet(have_pieces) = {}
    /\ ListSet(missing_pieces) \cup ListSet(ongoing_pieces)
           \cup ListSet(have_pieces) = Indices

\* pieces have moved through all three collections
C1_Witness ==
    /\ missing_pieces = <<>>
    /\ ongoing_pieces # <<>>
    /\ have_pieces # <<>>

\* the piece's data once the block at offset o holds d
AssembledWith(piece, o, d) ==
    [k \in 1..Len(piece.blocks) |->
        IF OffsetOf(Piece_sorted(piece)[k]) = o THEN d
        ELSE Piece_sorted(piece)[k].data]

\* the block at offset o is the one block of the piece not yet Retrieved
LastBlockOutstanding(piece, o) ==
    /\ \E k \in 1..Len(piece.blocks) : OffsetOf(piece.blocks[k]) = o
    /\ \A k \in 1..Len(piece.blocks) :
          IsRetrieved(piece.blocks[k]) <=> OffsetOf(piece.blocks[k]) # o

\* C2: block_received of the last outstanding block of an ongoing piece, the
\* assembled data matching the piece's hash, puts the piece in have (and no
\* longer in ongoing) and the data in the file at piece_index * piece_length
C2_CompletePieceStored ==
    [][\A i \in Indices, o \in Offsets, d \in DataSet :
          ( /\ BlockReceivedStep(i, o, d)
            /\ i \in ListSet(ongoing_pieces)
            /\ LastBlockOutstanding(pieces[i], o)
            /\ Sha1(AssembledWith(pieces[i], o, d)) = pieces[i].hash )
          => ( /\ i \in ListSet(have_pieces')
               /\ i \notin ListSet(ongoing_pieces')
               /\ i * torrent.piece_length \in DOMAIN file'
               /\ file'[i * torrent.piece_length]
                      = AssembledWith(pieces[i], o, d) )]_vars

\* C3: a piece whose assembled data does not match its hash is never added
\* to have: every piece in have matches its hash
C3_HaveVerified ==
    \A k \in 1..Len(have_pieces) :
        Piece_is_hash_matching(pieces[have_pieces[k]])

\* C4: a block next_request(p) returns is of a piece p's bitfield holds
C4_RequestOnlyHeldPieces ==
    \A p \in DOMAIN peers :
        next_request_ret(PM, p).kind = "block"
            => peers[p][next_request_ret(PM, p).piece]

\* next_request is about to hand a block to a peer
C4_Witness ==
    \E p \in DOMAIN peers :
        /\ next_request_ret(PM, p).kind = "block"
        /\ \E q \in DOMAIN peers : ~peers[q][next_request_ret(PM, p).piece]

\* C5: pending_blocks holds at most one request per block
C5_OnePendingPerBlock ==
    \A j, k \in 1..Len(pending_blocks) :
        j # k => pending_blocks[j].block # pending_blocks[k].block

\* a block was handed out, and a later block_received reset its piece: the
\* block is Missing again while its request is still listed
C5_Witness ==
    \E k \in 1..Len(pending_blocks) :
        /\ IsMissing(BlockAt(PM, pending_blocks[k].block))
        /\ BlockAt(PM, pending_blocks[k].block).status.kind = "int"

\* the requests that have expired for peer p: the block still Pending, older
\* than max_pending_time, of a piece p has
ExpiredFor(p) ==
    {k \in 1..Len(pending_blocks) :
        /\ IsPending(BlockAt(PM, pending_blocks[k].block))
        /\ pending_blocks[k].added + max_pending_time < now
        /\ peers[p][pending_blocks[k].block.piece]}

\* C6: when a request has expired for p, next_request(p) returns the block
\* of the oldest such request
C6_ExpiredReissued ==
    \A p \in DOMAIN peers :
        ExpiredFor(p) # {} =>
            next_request_ret(PM, p) =
                RetBlock(pending_blocks[Min(ExpiredFor(p))].block.piece,
                         pending_blocks[Min(ExpiredFor(p))].block.pos)

\* C7: when neither an expired request nor an ongoing piece yields a block
\* and the peer has a missing piece, next_request(p) returns the block at
\* offset 0 of the missing piece held by the fewest peers (the first such)
C7_RarestFirst ==
    \A p \in DOMAIN peers :
        ( /\ ExpiredFor(p) = {}
          /\ \A k \in 1..Len(ongoing_pieces) :
                peers[p][ongoing_pieces[k]] =>
                    \A j \in 1..Len(pieces[ongoing_pieces[k]].blocks) :
                        ~IsMissing(pieces[ongoing_pieces[k]].blocks[j])
          /\ \E k \in 1..Len(missing_pieces) : peers[p][missing_pieces[k]] )
        => LET held == {k \in 1..Len(missing_pieces) : peers[p][missing_pieces[k]]}
               count(i) == Cardinality({q \in DOMAIN peers : peers[q][i]})
               least == {k \in held : \A j \in held :
                            count(missing_pieces[k]) <= count(missing_pieces[j])}
               rarest == missing_pieces[Min(least)]
           IN  /\ next_request_ret(PM, p).kind = "block"
               /\ next_request_ret(PM, p).piece = rarest
               /\ OffsetOf(BlockAt(PM, next_request_ret(PM, p))) = 0

\* ===================================================== peer session claims
\* the handshake of the current connection has succeeded and the session is
\* in its message loop
InMessageLoop == future.at \in {"iter", "spin"}

\* C8: from a successful handshake until an Unchoke has been received the
\* session has 'choked' in my_state and has sent no Request; and a step that
\* sends a Request leaves 'interested' in my_state and 'choked' not, and
\* starts with 'pending_request' not in my_state
C8_ChokedUntilUnchoke ==
    /\ []((InMessageLoop /\ ~hist.unchoked) =>
             /\ in("choked", conn.my_state)
             /\ hist.requests = 0)
    /\ [][hist.requests' > hist.requests =>
             /\ in("interested", conn'.my_state)
             /\ ~in("choked", conn'.my_state)
             /\ ~in("pending_request", conn.my_state)]_vars

\* C9: when a connection has ended for a recoverable reason, stop() has not
\* been called and a peer is in the queue, the session pulls a peer
C9_NextPeerPulled ==
    (hist.ended /\ ~in("stopped", conn.my_state) /\ queue # <<>>)
        ~> (~hist.ended \/ in("stopped", conn.my_state))

StopCalled == hist.stops > 0

\* C10: once stop() has been called, 'stopped' is in my_state, the Task is
\* done or has a cancellation outstanding and comes to be done, and no step
\* pulls a peer from the queue or sends a message
C10_StoppedForGood ==
    /\ [](StopCalled =>
             /\ in("stopped", conn.my_state)
             /\ (done(future) \/ future.must_cancel))
    /\ [][StopCalled =>
             /\ hist.pulled' = hist.pulled
             /\ hist.sent' = hist.sent]_vars
    /\ (StopCalled ~> done(future))

\* stop() was called on a session that had shaken hands with a peer, and
\* the coroutine has left its loop at the test of 'stopped'
C10_Witness ==
    /\ StopCalled
    /\ future.state = "RETURNED"
    /\ conn.writer = "closed"
    /\ in("interested", conn.my_state)

\* C11: a session that was cancelled while it held a peer pulled from the
\* queue has, when its Task is done, no open writer and has marked the
\* queue task done exactly once for that peer
C11_CancelledCleansUp ==
    (done(future) /\ hist.cancelled) =>
        /\ conn.writer # "open"
        /\ hist.task_done = 1

\* ================================================== PeerStreamIterator steps
\* a PeerStreamIterator with an empty initial buffer, on a stream of one to
\* MaxFrames frames of which the last may be cut short
FramerInit ==
    \E n \in 1..MaxFrames :
      \E ms \in [1..n -> FramerMessages] :
        \E cut \in 0..(Len(Wire(ms[n])) - 1) :
          fr = [sent |-> ms, cut |-> cut,
                stream |-> SubSeq(WireAll(ms), 1, Len(WireAll(ms)) - cut),
                buffer |-> <<>>, out |-> <<>>, state |-> "reading"]

\* reader.read returns the next n bytes of the stream
FramerRead ==
    /\ fr.state = "reading"
    /\ Len(fr.out) <= Len(fr.sent)
    /\ \E n \in 1..Len(fr.stream) :
          fr' = PeerStreamIterator_anext(
                    [fr EXCEPT !.stream = SubSeq(@, n + 1, Len(@))],
                    SubSeq(fr.stream, 1, n))
    /\ UNCHANGED <<torrent, pieces, missing_pieces, ongoing_pieces,
                   have_pieces, pending_blocks, peers, file, now,
                   py, queue, conn, future, hist, cd, drv, hs>>

\* the stream is at its end: reader.read returns b''
FramerEOF ==
    /\ fr.state = "reading"
    /\ Len(fr.out) <= Len(fr.sent)
    /\ fr.stream = <<>>
    /\ fr' = PeerStreamIterator_anext(fr, <<>>)
    /\ UNCHANGED <<torrent, pieces, missing_pieces, ongoing_pieces,
                   have_pieces, pending_blocks, peers, file, now,
                   py, queue, conn, future, hist, cd, drv, hs>>

\* the rest of the program at rest, on one torrent
AtRest ==
    /\ PMInit
    /\ torrent.num_pieces = 1
    /\ torrent.total_size = ShortTail
    /\ SessInit

InitFramer == AtRest /\ FramerInit /\ CodecIdle /\ DriverIdle /\ HandshakeIdle

NextFramer ==
    \/ FramerRead
    \/ FramerEOF

SpecFramer == InitFramer /\ [][NextFramer]_vars

\* ============================================================ framer claims
IsPrefix(a, b) == Len(a) <= Len(b) /\ a = SubSeq(b, 1, Len(a))
Whole == fr.cut = 0
SentKinds == {fr.sent[k].kind : k \in 1..Len(fr.sent)}
\* the messages the frames of the stream stand for, in wire order; a frame
\* of an unknown id stands for none
Expected == SelectSeq(fr.sent, LAMBDA m : m.kind # "Port")
YieldsExpected ==
    /\ IsPrefix(fr.out, Expected)
    /\ fr.state = "terminated" => fr.out = Expected

\* C12: on a stream of K whole frames of known messages, in chunks of any
\* sizes, the framer yields those K messages in wire order and no others
C12_FramesInOrder ==
    (Whole /\ "Port" \notin SentKinds) => YieldsExpected

\* C13: when the buffer starts with a frame of length 0, parse returns a
\* KeepAlive and leaves the buffer 4 bytes shorter
C13_KeepAliveConsumed ==
    (/\ fr.state = "reading"
     /\ Len(fr.buffer) >= 4
     /\ unpack_I(Slice(fr.buffer, 0, 4)) = 0)
    => /\ PeerStreamIterator_parse(fr.buffer).ret = [kind |-> "KeepAlive"]
       /\ PeerStreamIterator_parse(fr.buffer).buffer
              = Slice(fr.buffer, 4, Len(fr.buffer))

\* the bytes b are a proper prefix of the frame of m
ProperPrefix(b, m) ==
    Len(b) < Len(Wire(m)) /\ b = SubSeq(Wire(m), 1, Len(b))
LastSent == fr.sent[Len(fr.sent)]

C15_UnknownSkipped ==
    (Whole /\ SentKinds \subseteq {"Port", "Choke"} /\ "Port" \in SentKinds)
        => YieldsExpected

\* ============================================================ TorrentClient
\* drv.task is where the coroutine start() is: "idle" before it is run,
\* "connect" in tracker.connect, "sleep" in asyncio.sleep(5), and RETURNED
\* or RAISED once it has ended. drv.previous = 0 is None; the clock starts
\* at 1 and counts seconds; drv.current is the local `current`, the clock as
\* start() last read it. A driver step works on x = [w, d]: the session
\* and queue (w, as in W) and the driver's own fields (d).
X == [w |-> W, d |-> drv]

XAssign(x) == WAssign(x.w) /\ drv' = x.d

\* PieceManager.close : `if self.id:` reads an attribute that is never set
PieceManager_close_raises == TRUE

\* TorrentClient.stop : abort, stop() on every session, piece_manager.close()
\* and tracker.close(); an exception out of close() ends the call there
TorrentClient_stop(x) ==
    LET x1 == [x EXCEPT !.d.abort = TRUE,
                        !.d.stop_calls = @ + 1,
                        !.w = [stop(@) EXCEPT !.hist.stops = @ + 1]]
    IN  IF PieceManager_close_raises THEN x1
        ELSE [x1 EXCEPT !.d.fd = "closed", !.d.http_client = "closed"]

TorrentClient_stop_raises(x) == PieceManager_close_raises

\* TorrentClient.start, line 66: self.stop() after the loop
start_after_loop(x) ==
    [TorrentClient_stop(x) EXCEPT
        !.d.task = IF TorrentClient_stop_raises(x) THEN "RAISED"
                   ELSE "RETURNED"]

\* Tracker.connect up to its await: the announce goes out, with
\* event=started when `first` is true. drv.announces keeps, for each
\* announce, that parameter and what `complete` was
Tracker_connect(d, first, downloaded, was_complete) ==
    [d EXCEPT !.task = "connect",
              !.failed = FALSE,
              !.announces = Append(@, [event |-> IF first THEN "started"
                                                 ELSE "none",
                                       downloaded |-> downloaded,
                                       left |-> torrent.total_size - downloaded,
                                       complete |-> was_complete])]

\* TorrentClient.start, lines 43-65: one pass of the while up to its await.
\* `first=previous if previous else False` is true when there has been an
\* announce before
start_loop(x) ==
    IF complete(x.w.pm) \/ x.d.abort THEN start_after_loop(x)
    ELSE IF x.d.previous = 0 \/ x.d.previous + x.d.interval < x.d.clock
    THEN [x EXCEPT !.d = Tracker_connect([@ EXCEPT !.current = x.d.clock],
                                         x.d.previous # 0,
                                         bytes_downloaded(x.w.pm),
                                         complete(x.w.pm))]
    ELSE [x EXCEPT !.d.task = "sleep", !.d.current = x.d.clock]

\* what the tracker answers: a status other than 200, a body that holds
\* "failure", or a bencoded dictionary with `interval` and compact `peers`
TrackerAnswers ==
    {[kind |-> "status"], [kind |-> "failure"]}
        \cup [kind : {"response"}, interval : {0, 5}, peers : {<<>>, <<"A">>}]

\* TrackerResponse.peers : Tracker.decode_port is handed p[:4], four bytes
\* for the format '>H' of two, so struct.unpack raises for any peer
TrackerResponse_peers_raises(answer) == answer.peers # <<>>

\* Tracker.connect from its await, and start lines 58-63. connect raises
\* ConnectionError for a failed announce and start has no handler for it.
\* drv.returned keeps the peers of the latest response
start_response(x, answer) ==
    IF answer.kind \in {"status", "failure"}
    THEN [x EXCEPT !.d.task = "RAISED", !.d.failed = TRUE,
                   !.d.queue_before = x.w.queue]
    ELSE LET x1 == [x EXCEPT !.d.previous = x.d.current,
                             !.d.interval = answer.interval,
                             !.d.returned = answer.peers,
                             !.w.queue = <<>>]
         IN  IF TrackerResponse_peers_raises(answer)
             THEN [x1 EXCEPT !.d.task = "RAISED"]
             ELSE start_loop(x1)

\* start() is run: the sessions are made and the loop entered
DriverStart ==
    /\ drv.task = "idle"
    /\ XAssign(start_loop([X EXCEPT !.d.clock = 1, !.d.interval = 30 * 60]))
    /\ UNCHANGED <<torrent, now, py, fr, cd, hs>>

\* the announce is answered, at once or a second later
DriverResponse ==
    /\ drv.task = "connect"
    /\ Len(drv.announces) < MaxAnnounces
    /\ \E answer \in TrackerAnswers, rtt \in {0, 1} :
            XAssign(start_response([X EXCEPT !.d.clock = @ + rtt], answer))
    /\ UNCHANGED <<torrent, now, py, fr, cd, hs>>

\* asyncio.sleep(5) is over
DriverSleepDone ==
    /\ drv.task = "sleep"
    /\ drv.sleeps < MaxSleeps
    /\ XAssign(start_loop([X EXCEPT !.d.clock = @ + 5, !.d.sleeps = @ + 1]))
    /\ UNCHANGED <<torrent, now, py, fr, cd, hs>>

\* stop() is called on the client while start() is suspended
ClientStop ==
    /\ drv.task \in {"connect", "sleep"}
    /\ drv.stop_calls = 0
    /\ XAssign(TorrentClient_stop(X))
    /\ UNCHANGED <<torrent, now, py, fr, cd, hs>>

InitDriver ==
    /\ PMInit
    /\ torrent.num_pieces = 1
    /\ SessInit
    /\ FramerIdle
    /\ CodecIdle
    /\ DriverIdle
    /\ HandshakeIdle

\* the sessions' calls to the piece manager go on while the driver runs
NextDriver ==
    \/ DriverStart
    \/ DriverResponse
    \/ DriverSleepDone
    \/ ClientStop
    \/ AddPeer
    \/ NextRequest
    \/ BlockReceived

SpecDriver == InitDriver /\ [][NextDriver]_vars

\* ============================================================ driver claims
Ended_start == drv.task \in {"RETURNED", "RAISED"}
StopRequested == drv.abort
SessionsStopped == in("stopped", conn.my_state)

\* C16: when an announce fails (a status other than 200, or a body with a
\* failure in it) the driver does not terminate and does not stop its
\* sessions, and the peer queue is left as it was.
C16_AnnounceFailureTolerated ==
    drv.failed =>
        /\ ~Ended_start
        /\ ~SessionsStopped
        /\ queue = drv.queue_before

\* C17: the first announce of a run carries event=started and no later
\* announce does.
C17_StartedOnlyFirst ==
    \A k \in 1..Len(drv.announces) :
        (drv.announces[k].event = "started") <=> (k = 1)

\* C18: once the download is complete the driver makes no further announce,
\* leaves its loop and stops its sessions; while the download is not
\* complete and no stop was requested, the driver does not leave its loop.
C18_LeavesLoopOnlyWhenComplete ==
    /\ \A k \in 1..Len(drv.announces) : ~drv.announces[k].complete
    /\ (Ended_start /\ complete(PM)) => SessionsStopped
    /\ Ended_start => (complete(PM) \/ StopRequested)

\* C19: a call of stop() on the driver completes all four of its effects:
\* abort is set, every session is stopped, the piece manager's file handle
\* is released and the tracker is closed.
C19_StopCompletes ==
    drv.stop_calls > 0 =>
        /\ drv.abort
        /\ SessionsStopped
        /\ drv.fd = "closed"
        /\ drv.http_client = "closed"

\* ==================================================================== codec
\* the bytes an encode returns
Bytes(b) == [kind |-> "bytes", bytes |-> b]

\* m.encode() : the encode of m's class
Message_encode(m) ==
    CASE m.kind = "Handshake" -> Bytes(Handshake_encode(m))
      [] m.kind = "BitField" -> BitField_encode(m)
      [] m.kind = "Interested" -> Bytes(Interested_encode(m))
      [] m.kind = "Have" -> Bytes(Have_encode(m))
      [] m.kind = "Request" -> Bytes(Request_encode(m))
      [] m.kind = "Piece" -> Piece_encode(m)
      [] m.kind = "Cancel" -> Bytes(Cancel_encode(m))
      [] OTHER -> PeerMessage_encode(m)

\* type(m).decode(data) : the decode of the class named `kind`. The classes
\* that define none inherit PeerMessage.decode, which does not look at data
Message_decode(kind, data) ==
    CASE kind \in {"KeepAlive", "Choke", "Unchoke", "Interested",
                   "NotInterested"} -> PeerMessage_decode(data)
      [] data.kind # "bytes" -> Raised("TypeError")
      [] kind = "Handshake" -> Handshake_decode(data.bytes)
      [] kind = "BitField" -> BitField_decode(data.bytes)
      [] kind = "Have" -> Have_decode(data.bytes)
      [] kind = "Request" -> Request_decode(data.bytes)
      [] kind = "Piece" -> Piece_decode(data.bytes)
      [] kind = "Cancel" -> Cancel_decode(data.bytes)

\* well-formed messages: every kind, integer fields that take one to
\* MaxValues bytes, 20-byte hashes and ids
FieldValues == {0} \cup {256 ^ k : k \in 0..(MaxValues - 1)}
Repeat(byte, n) == [k \in 1..n |-> byte]
CodecMessages ==
    {[kind |-> k] : k \in {"KeepAlive", "Choke", "Unchoke", "Interested",
                           "NotInterested"}}
      \cup {[kind |-> "Handshake", info_hash |-> Repeat(h, 20),
             peer_id |-> Repeat(p, 20)] : h \in {0, 171}, p \in {45, 255}}
      \cup [kind : {"Have"}, index : FieldValues]
      \cup [kind : {"BitField"}, bitfield : {<<128>>, <<255, 0>>}]
      \cup [kind : {"Request", "Cancel"}, index : FieldValues,
            begin : {0, REQUEST_SIZE}, length : {1, REQUEST_SIZE}]
      \cup [kind : {"Piece"}, index : {0, 1}, begin : {0, REQUEST_SIZE},
            block : {<<7>>, <<0, 255>>}]

InitCodec ==
    /\ AtRest
    /\ FramerIdle
    /\ DriverIdle
    /\ HandshakeIdle
    /\ \E m \in CodecMessages :
          cd = [state |-> "message", m |-> m, data |-> None, back |-> None]

\* m.encode()
CodecEncode ==
    /\ cd.state = "message"
    /\ cd' = [cd EXCEPT !.data = Message_encode(cd.m),
                        !.state = IF Message_encode(cd.m).kind = "raise"
                                  THEN "raised" ELSE "encoded"]
    /\ UNCHANGED <<torrent, pieces, missing_pieces, ongoing_pieces,
                   have_pieces, pending_blocks, peers, file, now,
                   py, queue, conn, future, hist, fr, drv, hs>>

\* type(m).decode(m.encode())
CodecDecode ==
    /\ cd.state = "encoded"
    /\ cd' = [cd EXCEPT !.back = Message_decode(cd.m.kind, cd.data),
                        !.state = "decoded"]
    /\ UNCHANGED <<torrent, pieces, missing_pieces, ongoing_pieces,
                   have_pieces, pending_blocks, peers, file, now,
                   py, queue, conn, future, hist, fr, drv, hs>>

NextCodec ==
    \/ CodecEncode
    \/ CodecDecode

SpecCodec == InitCodec /\ [][NextCodec]_vars

\* ============================================================= codec claims
\* C20: for every well-formed message m, of every kind, decoding the bytes
\* that encoding m produces gives a message of the same kind with the same
\* field values.
C20_RoundTrip ==
    /\ cd.state # "raised"
    /\ cd.state = "decoded" => cd.back = cd.m

\* ================================================== Piece Manager claims, II
\* the size the payload gives a piece: piece_length, and for the last piece
\* total_size mod piece_length, or piece_length when that is zero
PieceSize(t, index) ==
    IF index < t.num_pieces - 1 THEN t.piece_length
    ELSE IF t.total_size % t.piece_length = 0 THEN t.piece_length
    ELSE t.total_size % t.piece_length

RECURSIVE SumLengths(_)
SumLengths(blocks) ==
    IF blocks = <<>> THEN 0
    ELSE Head(blocks).length.val + SumLengths(Tail(blocks))

\* C21: for every piece the blocks are ordered by offset, start at offset 0,
\* are contiguous, each has a length between 1 and REQUEST_SIZE, and their
\* lengths sum to the piece size; no piece has zero blocks.
C21_BlocksCoverPiece ==
    \A index \in Indices :
        LET blocks == pieces[index].blocks IN
        /\ Len(blocks) >= 1
        /\ OffsetOf(blocks[1]) = 0
        /\ \A k \in 1..(Len(blocks) - 1) :
              OffsetOf(blocks[k + 1]) = OffsetOf(blocks[k]) + blocks[k].length.val
        /\ \A k \in 1..Len(blocks) : blocks[k].length.val \in 1..REQUEST_SIZE
        /\ SumLengths(blocks) = PieceSize(torrent, index)

\* C22: update_peer(peer_id, piece_index) for a known peer sets bit
\* piece_index in that peer's bitfield and leaves every other bit and every
\* other peer's bitfield as it was; for an unknown peer it changes nothing;
\* so a Have never removes the remote peer from the Piece Manager.
C22_UpdatePeerSetsBit ==
    \A p \in PeerIds, i \in Indices :
        /\ ~update_peer_index_raises(PM, p, i)
        /\ update_peer_index(PM, p, i).peers =
               IF p \in DOMAIN peers
               THEN [peers EXCEPT ![p] = [@ EXCEPT ![i] = TRUE]]
               ELSE peers
        /\ DOMAIN update_peer(PM, p).peers = DOMAIN peers

\* no block can be selected for p: p is unknown, or no request has expired
\* for p, no ongoing piece p has holds a Missing block and p has no missing
\* piece
NoBlockFor(p) ==
    \/ p \notin DOMAIN peers
    \/ /\ ExpiredFor(p) = {}
       /\ \A k \in 1..Len(ongoing_pieces) :
             peers[p][ongoing_pieces[k]] =>
                 \A j \in 1..Len(pieces[ongoing_pieces[k]].blocks) :
                     ~IsMissing(pieces[ongoing_pieces[k]].blocks[j])
       /\ \A k \in 1..Len(missing_pieces) : ~peers[p][missing_pieces[k]]

\* C23: whenever no block can be selected for the peer, next_request
\* returns None without raising, and missing, ongoing, have and the pending
\* requests are as before.
C23_NoBlockReturnsNone ==
    \A p \in PeerIds :
        NoBlockFor(p) =>
            /\ next_request_ret(PM, p) = RetNone
            /\ next_request(PM, p).missing_pieces = missing_pieces
            /\ next_request(PM, p).ongoing_pieces = ongoing_pieces
            /\ next_request(PM, p).have_pieces = have_pieces
            /\ next_request(PM, p).pending_blocks = pending_blocks

\* ================================================================ handshake
\* the info_hash of the torrent the session was made for
our_info_hash == Repeat(171, 20)

\* mutant: a response taken whatever its info_hash
_handshake_response_any(buf, info_hash) ==
    LET response == Handshake_decode(Slice(buf, 0, Handshake_length)) IN
    IF response.kind = "None" THEN "short" ELSE "valid"

\* _handshake, lines 206-210: Handshake.decode(buf[:Handshake.length]) and
\* the two tests that raise ProtocolError
_handshake_response(buf, info_hash) ==
    LET response == Handshake_decode(Slice(buf, 0, Handshake_length)) IN
    IF response.kind = "None" THEN "short"
    ELSE IF response.info_hash # info_hash THEN "other_torrent"
    ELSE "valid"

\* what a remote peer sends after the connection is made: a handshake for
\* our torrent or for another, whole or short of a byte, alone or with a
\* Choke frame behind it or 20 bytes before it, or nothing
PeerHandshake(h) ==
    Handshake_encode([kind |-> "Handshake", info_hash |-> h,
                      peer_id |-> Repeat(65, 20)])
PeerStreams ==
    {<<>>,
     PeerHandshake(our_info_hash),
     PeerHandshake(Repeat(0, 20)),
     SubSeq(PeerHandshake(our_info_hash), 1, Handshake_length - 1),
     PeerHandshake(our_info_hash) \o Frame(PeerMessage_CHOKE, <<>>),
     Repeat(1, 20) \o PeerHandshake(our_info_hash),
     Repeat(1, 20) \o PeerHandshake(Repeat(0, 20))}

\* the sizes reader.read may return of what is left of the stream; 0 is
\* b'', returned at the end of the stream
ChunkSizes(stream) ==
    IF stream = <<>> THEN {0}
    ELSE {n \in {20, 48, Handshake_length - 1, Handshake_length, Len(stream)} :
             n <= Len(stream)}

\* the bytes hold, somewhere, a full handshake with our info_hash
ValidReturned(bytes) ==
    \E i \in 0..(Len(bytes) - Handshake_length) :
        LET response == Handshake_decode(Slice(bytes, i, i + Handshake_length))
        IN  response.kind = "Handshake" /\ response.info_hash = our_info_hash

\* _handshake, lines 201-204: one pass of the while, `data` being what
\* reader.read returned; buf is replaced by it
_handshake_read(h, data) ==
    [h EXCEPT !.tries = @ + 1, !.buf = data,
              !.returned = @ \o data,
              !.stream = SubSeq(@, Len(data) + 1, Len(@))]

_handshake_reading(h) == Len(h.buf) < Handshake_length /\ h.tries < 10

\* the local variables of _handshake are gone when it ends; hs.valid keeps
\* whether what the peer returned held a full handshake of our torrent
_handshake_end(h) ==
    [h EXCEPT !.stream = <<>>, !.buf = <<>>, !.returned = <<>>,
              !.valid = ValidReturned(h.returned)]

\* open_connection returns or raises, as in OpenConnection; the peer's
\* stream is what reader.read will return
HandshakeConnect ==
    /\ Waiting("connect")
    /\ \E outcome \in ConnectOutcomes :
          /\ WAssign(open_connection(W, outcome))
          /\ IF outcome = "connected"
             THEN \E stream \in PeerStreams :
                     hs' = [stream |-> stream, returned |-> <<>>,
                            buf |-> <<>>, tries |-> 1, valid |-> FALSE]
             ELSE hs' = hs
    /\ UNCHANGED <<torrent, now, py, fr, cd, drv>>

\* reader.read returns in _handshake
HandshakeRead ==
    /\ Waiting("handshake")
    /\ \E n \in ChunkSizes(hs.stream) :
          LET h == _handshake_read(hs, SubSeq(hs.stream, 1, n)) IN
          IF _handshake_reading(h)
          THEN hs' = h /\ WAssign(W)
          ELSE /\ hs' = _handshake_end(h)
               /\ WAssign(_handshake(W, _handshake_response(h.buf,
                                                            our_info_hash)))
    /\ UNCHANGED <<torrent, now, py, fr, cd, drv>>

\* reader.read raises ConnectionResetError in _handshake
HandshakeReset ==
    /\ Waiting("handshake")
    /\ hs' = _handshake_end(hs)
    /\ WAssign(_handshake(W, "reset"))
    /\ UNCHANGED <<torrent, now, py, fr, cd, drv>>

\* the session, with the handshake read byte by byte
NextHandshake ==
    \/ Start
    \/ QueueGet
    \/ Cancelled
    \/ HandshakeConnect
    \/ HandshakeRead
    \/ HandshakeReset
    \/ Message
    \/ PieceMessage
    \/ EndOfStream
    \/ ConnectionReset
    \/ QueuePut
    \/ Stop

SpecHandshake == Init /\ [][NextHandshake]_vars

\* C24: a session sends Interested, registers a bitfield or sends a Request
\* to a peer only after that peer has returned a full 68-byte handshake whose
\* info_hash equals ours; a short or mismatching handshake drops the peer
\* without any of those effects.
C24_EffectsOnlyAfterHandshake ==
    (\/ hist.interested > 0
     \/ hist.registered > 0
     \/ hist.requests > 0
     \/ InMessageLoop) => hs.valid

\* a peer whose handshake was taken has been sent Interested, has had its
\* bitfield registered and has been looked for a block to request
C24_Witness ==
    /\ hs.valid
    /\ hist.interested > 0
    /\ hist.registered > 0
    /\ in("pending_request", conn.my_state)

\* ======================================================== driver claims, II
\* C25: after each successful announce the driver drains the peer queue and
\* refills it with the peers of that response: right after the refill the
\* queue holds exactly the peers the latest announce returned.
C25_QueueHoldsLatestPeers ==
    drv.previous # 0 => queue = drv.returned

\* ============================================================ message loop
\* the session on one torrent, with the kind of the message it was last
\* handed kept in hist.last
Last(w, kind) == [w EXCEPT !.hist.last = kind]

LoopMessage ==
    /\ Waiting("iter")
    /\ hist.msgs < MaxLoopMsgs
    /\ \E message \in Messages, bitfield \in Bitfields :
          WAssign(_start_message(Last(Counted(W), parse(W, message)),
                                 parse(W, message), bitfield))
    /\ UNCHANGED <<torrent, now, py, fr, cd, drv, hs>>

LoopPieceMessage ==
    /\ Waiting("iter")
    /\ hist.msgs < MaxLoopMsgs
    /\ \E index \in Indices, begin \in Offsets, data \in DataSet :
          WAssign(_start_piece_frame(
                      Last(Counted(W), parse(W, "Piece")), index, begin, data))
    /\ UNCHANGED <<torrent, now, py, fr, cd, drv, hs>>

InitLoop ==
    /\ AtRest
    /\ FramerIdle
    /\ CodecIdle
    /\ DriverIdle
    /\ HandshakeIdle

NextLoop ==
    \/ Start
    \/ QueueGet
    \/ Cancelled
    \/ OpenConnection
    \/ Handshake
    \/ LoopMessage
    \/ LoopPieceMessage
    \/ EndOfStream
    \/ ConnectionReset
    \/ QueuePut
    \/ Stop

SpecLoop == InitLoop /\ [][NextLoop]_vars

\* ================================================= peer session claims, II
\* C26: Choke and Unchoke act on my_state as a set: after an Unchoke has
\* been handled choked is not in my_state, however many Chokes came before
\* it; after a Choke has been handled choked is in my_state.
C26_ChokedIsAFlag ==
    /\ hist.last = "Unchoke" => ~in("choked", conn.my_state)
    /\ hist.last = "Choke" => in("choked", conn.my_state)

\* C27: each time a session completes a handshake with a new peer, my_state
\* is set to exactly {choked} and then interested is added: no flag of the
\* previous peer carries over.
C27_StateResetAtHandshake ==
    [][(future.at = "handshake" /\ future'.at = "iter") =>
          {word \in StateWords : in(word, conn'.my_state)}
              = {"choked", "interested"}]_vars

\* C28: for every Piece message a session receives, in any session state,
\* handling it leaves pending_request out of my_state and invokes the
\* block-received callback exactly once; the session then goes on with the
\* next message.
C28_PieceHandled ==
    [][(hist'.last = "Piece" /\ hist'.msgs = hist.msgs + 1) =>
          /\ ~in("pending_request", conn'.my_state)
          /\ hist'.callbacks = hist.callbacks + 1
          /\ future'.at \in {"iter", "spin"}]_vars

\* ================================================= Piece Manager claims, III
\* C29: in every reachable state a block has status Pending if and only if
\* the pending-request list holds an entry for it.
C29_PendingIffRequested ==
    \A index \in Indices :
        \A pos \in 1..Len(pieces[index].blocks) :
            IsPending(pieces[index].blocks[pos]) <=>
                \E k \in 1..Len(pending_blocks) :
                    pending_blocks[k].block = [piece |-> index, pos |-> pos]

\* the position in piece index of the block at offset o, 0 when there is none
BlockPos(index, o) ==
    LET hits == {k \in 1..Len(pieces[index].blocks) :
                    OffsetOf(pieces[index].blocks[k]) = o}
    IN  IF hits # {} THEN Min(hits) ELSE 0

\* C30: block_received for a block of an ongoing piece that does not
\* complete the piece changes only that block, which becomes Retrieved and
\* holds the data: every other block of the piece keeps its status and data,
\* the piece stays in ongoing and nothing is written to the output file.
C30_OnlyThatBlockChanges ==
    \A index \in ListSet(ongoing_pieces), o \in Offsets, data \in DataSet :
        LET pos == BlockPos(index, o)
            m == block_received(PM, "A", index, o, data)
        IN  ( /\ pos # 0
              /\ \E k \in 1..Len(pieces[index].blocks) :
                    k # pos /\ ~IsRetrieved(pieces[index].blocks[k]) )
            => /\ IsRetrieved(m.pieces[index].blocks[pos])
               /\ m.pieces[index].blocks[pos].data = data
               /\ \A k \in 1..Len(pieces[index].blocks) :
                     k # pos =>
                        m.pieces[index].blocks[k] = pieces[index].blocks[k]
               /\ index \in ListSet(m.ongoing_pieces)
               /\ m.file = file

\* C31: in every reachable state a block holds data if and only if its
\* status is Retrieved; a block reset to Missing holds no data.
C31_DataIffRetrieved ==
    \A index \in Indices :
        \A pos \in 1..Len(pieces[index].blocks) :
            (pieces[index].blocks[pos].data # NoData)
                <=> IsRetrieved(pieces[index].blocks[pos])

\* a block that Piece.reset has put back to Missing, and that holds no data
C31_Witness ==
    \E index \in ListSet(ongoing_pieces) :
        \E pos \in 1..Len(pieces[index].blocks) :
            /\ pieces[index].blocks[pos].status = PyInt(BlockMissing)
            /\ pieces[index].blocks[pos].data = NoData

\* ================================================ peer session claims, III
\* C32: whenever pending_request is in a session's my_state, the session
\* has sent a Request to its current peer that a Piece has not yet
\* answered; the flag is never left set when next_request returned no block.
C32_PendingMeansRequested ==
    (InMessageLoop /\ in("pending_request", conn.my_state)) =>
        hist.requests > 0

\* ========================================================= framer claims, II
\* the buffer starts with a complete frame: 4 + length bytes or more
CompleteFrameAtHead(buffer) ==
    /\ Len(buffer) >= 4
    /\ Len(buffer) >= 4 + unpack_I(Slice(buffer, 0, 4))

\* C33: the framer reads from the underlying reader only when its buffer
\* does not hold a complete frame: every complete frame already buffered is
\* yielded without waiting for further bytes from the peer. (Streams of
\* frames that parse consumes and decodes: no keep-alive, no unknown id, no
\* Piece.)
C33_ReadsOnlyWhenNeeded ==
    (/\ SentKinds \subseteq {"Choke", "NotInterested", "Have", "BitField"}
     /\ fr.state = "reading")
    => ~CompleteFrameAtHead(fr.buffer)

\* ============================================================== the program
\* the driver and a session of its own together, in a run nobody stops. The
\* peers a session pulls are the ones start() puts in the queue with
\* put_nowait (lines 62-63), and the Piece Manager is called by the session
\* alone; a session that has started waits in queue.get() (protocol.py line
\* 73) until a peer is put.
NextProgram ==
    \/ DriverStart
    \/ DriverResponse
    \/ DriverSleepDone
    \/ Start

\* the event loop runs every callback that is ready, the tracker answers
\* every announce and the sleeps end
SpecProgram ==
    /\ InitDriver
    /\ [][NextProgram]_vars
    /\ WF_vars(DriverStart)
    /\ WF_vars(DriverResponse)
    /\ WF_vars(DriverSleepDone)
    /\ WF_vars(Start)

\* C34: under fair scheduling, once the tracker has returned at least one
\* peer (one that can be reached, completes the handshake, has every piece,
\* unchokes us and answers every Request with the right data), eventually
\* every piece is in have and the driver has left its loop.
C34_EventuallyComplete ==
    (drv.returned # <<>>) ~> (complete(PM) /\ Ended_start)

\* ========================================================= driver claims, III
\* the driver with a torrent of any number of pieces
InitAnnounce ==
    /\ PMInit
    /\ SessInit
    /\ FramerIdle
    /\ CodecIdle
    /\ DriverIdle
    /\ HandshakeIdle

\* announces the driver makes in a run
MaxReports == 2

\* the sessions exist from start() on (lines 30-36)
Running == drv.task \in {"connect", "sleep"}

\* the calls a session makes to the piece manager for the peer the tracker
\* names: add_peer at its BitField, next_request in _request_piece and
\* block_received at a Piece
SessionAddPeer ==
    /\ Running
    /\ \E b \in Bitfields : PMAssign(add_peer(PM, "A", b))
    /\ UNCHANGED <<torrent, now, py, queue, conn, future, hist, fr, cd, drv, hs>>

SessionNextRequest ==
    /\ Running
    /\ PMAssign(next_request(PM, "A"))
    /\ UNCHANGED <<torrent, now, py, queue, conn, future, hist, fr, cd, drv, hs>>

SessionBlockReceived ==
    /\ Running
    /\ BlockReceived

AnnounceResponse ==
    /\ Len(drv.announces) < MaxReports
    /\ DriverResponse

NextAnnounce ==
    \/ DriverStart
    \/ AnnounceResponse
    \/ DriverSleepDone
    \/ SessionAddPeer
    \/ SessionNextRequest
    \/ SessionBlockReceived

SpecAnnounce == InitAnnounce /\ [][NextAnnounce]_vars

\* C35: in every announce the driver makes, left = total_size - downloaded
\* is not negative, and no announce is made in a state where
\* len(have) * piece_length (the `downloaded` it reports) exceeds total_size.
C35_LeftNotNegative ==
    \A k \in 1..Len(drv.announces) :
        /\ drv.announces[k].left >= 0
        /\ drv.announces[k].downloaded <= torrent.total_size

\* an announce that reports pieces: it is made with the final piece in have
C35_Witness ==
    \E k \in 1..Len(drv.announces) :
        /\ drv.announces[k].downloaded > 0
        /\ drv.announces[k].left >= 0
        /\ \E i \in 1..Len(have_pieces) :
              have_pieces[i] = torrent.num_pieces - 1
====
